---- MODULE Spec2Model ----
(***************************************************************************)
(* Source locations and spans of esparse (src/esparse/src/ast.rs).         *)
(*                                                                         *)
(* Loc is a record [pos, row, col] of usize values; SpanT<F> is a record   *)
(* [file_name, start, end].  Every function of the file is a pure          *)
(* function of its arguments, so each is an operator, and the actions      *)
(* below apply the operators to the operands held in the state and record  *)
(* the value returned in ret.                                              *)
(***************************************************************************)
EXTENDS Integers, Sequences, FiniteSets, TLC

\* Largest byte position of the operands drawn by the initial states.
MaxPos == 2
\* Width of usize in the model; the arithmetic of fmt is done modulo 2^WordBits.
WordBits == 2

RECURSIVE Pow2(_)
Pow2(n) == IF n = 0 THEN 1 ELSE 2 * Pow2(n - 1)

\* usize::MAX
UsizeMax == Pow2(WordBits) - 1

\* The values of a usize.
Usize == 0..UsizeMax

\* Byte positions of the operands.
Positions == 0..MaxPos

\* Rows and columns of the operands of the binary operations: min and max
\* never read row or col, two values tell locations of equal pos apart.
Lines == {0, 1}

\* The texts of the file names, as sequences of characters.
FileTexts == {<<"a", ".", "j", "s">>, <<"b", ".", "j", "s">>}

VARIABLES a, b, s1, s2, s3, ret

vars == <<a, b, s1, s2, s3, ret>>

----------------------------------------------------------------------------
(* Loc *)

\* Loc::new
Loc_new(pos, row, col) == [pos |-> pos, row |-> row, col |-> col]

\* Loc::zero, the derived Default of Loc
Loc_zero == Loc_new(0, 0, 0)

\* A Loc::min that takes the right operand on a tie.
Loc_min_tie_other(self, loc) == IF self.pos < loc.pos THEN self ELSE loc

\* A Loc::min that always keeps self.
Loc_min_self(self, loc) == self

\* Loc::min
Loc_min(self, loc) == IF self.pos <= loc.pos THEN self ELSE loc

\* A Loc::max that keeps the left operand whatever the right one is.
Loc_max_self(self, loc) == self

\* Loc::max
Loc_max(self, loc) == IF self.pos >= loc.pos THEN self ELSE loc

----------------------------------------------------------------------------
(* File names.  A file name value carries its representation and its text: *)
(* &'f str, String, or Rc<String>.                                         *)

\* A borrowed file name, &'f str.
Str(text) == [repr |-> "&str", text |-> text]

\* str::to_owned: a String holding a copy of the characters of the slice.
to_owned(s) == [repr |-> "String", text |-> [i \in 1..Len(s.text) |-> s.text[i]]]

\* Rc::new of a String: the shared handle owns the String it is given.
Rc_new(string) == [repr |-> "Rc<String>", text |-> string.text]

----------------------------------------------------------------------------
(* SpanT<F> *)

\* SpanT::new
SpanT_new(file_name, start, end) ==
    [file_name |-> file_name, start |-> start, end |-> end]

\* SpanT::empty
SpanT_empty(file_name, loc) == SpanT_new(file_name, loc, loc)

\* SpanT::zero
SpanT_zero(file_name) == SpanT_new(file_name, Loc_zero, Loc_zero)

\* An extend_to_cover that keeps the file name of the right operand.
extend_to_cover_right_file(self, span) ==
    [file_name |-> span.file_name,
     start |-> Loc_min(self.start, span.start),
     end |-> Loc_max(self.end, span.end)]

\* An extend_to_cover that orders the two ends of the result.
extend_to_cover_sorted(self, span) ==
    LET lo == Loc_min(Loc_min(self.start, span.start), Loc_min(self.end, span.end))
        hi == Loc_max(Loc_max(self.start, span.start), Loc_max(self.end, span.end))
    IN  [file_name |-> self.file_name, start |-> lo, end |-> hi]

\* An extend_to_cover that takes the larger start and the smaller end.
extend_to_cover_intersect(self, span) ==
    [file_name |-> self.file_name,
     start |-> Loc_max(self.start, span.start),
     end |-> Loc_min(self.end, span.end)]

\* An extend_to_cover that takes the end of the right operand.
extend_to_cover_end_other(self, span) ==
    [file_name |-> self.file_name,
     start |-> Loc_min(self.start, span.start),
     end |-> span.end]

\* SpanT::extend_to_cover
extend_to_cover(self, span) ==
    [file_name |-> self.file_name,
     start |-> Loc_min(self.start, span.start),
     end |-> Loc_max(self.end, span.end)]

\* SpanT::with_file_name
with_file_name(self, file_name) ==
    [file_name |-> file_name, start |-> self.start, end |-> self.end]

\* A with_rc that makes an empty span at the start.
with_rc_start(self) ==
    SpanT_new(Rc_new(to_owned(self.file_name)), self.start, self.start)

\* Span::with_rc
with_rc(self) == SpanT_new(Rc_new(to_owned(self.file_name)), self.start, self.end)

\* Span::with_owned
with_owned(self) == SpanT_new(to_owned(self.file_name), self.start, self.end)

----------------------------------------------------------------------------
(* impl fmt::Display for SpanT<F> *)

\* usize + usize.  With overflow checks (a debug build) a sum above usize::MAX
\* panics; without them (a release build) it wraps.
usize_add(x, y) == [overflow |-> x + y > UsizeMax, val |-> (x + y) % (UsizeMax + 1)]

\* Display of one decimal digit.
Digit(d) ==
    CASE d = 0 -> "0" [] d = 1 -> "1" [] d = 2 -> "2" [] d = 3 -> "3" [] d = 4 -> "4"
      [] d = 5 -> "5" [] d = 6 -> "6" [] d = 7 -> "7" [] d = 8 -> "8" [] d = 9 -> "9"

\* Display of a usize: its decimal digits, most significant first.
RECURSIVE Dec(_)
Dec(n) == IF n < 10 THEN Digit(n) ELSE Dec(n \div 10) \o Digit(n % 10)

\* Display of a file name: the characters of its text, for each of &str,
\* String and Rc<String>.
RECURSIVE Chars(_)
Chars(text) == IF Len(text) = 0 THEN "" ELSE Head(text) \o Chars(Tail(text))

\* write!: the arguments are evaluated first, and an overflowing sum panics
\* before anything is written when overflow checks are on.  args are the
\* numbers handed to the formatter, text is what was written.
write(file_name, sums, pieces, overflow_checks) ==
    IF overflow_checks /\ \E i \in 1..Len(sums) : sums[i].overflow
    THEN [panicked |-> TRUE, args |-> <<>>, text |-> ""]
    ELSE [panicked |-> FALSE,
          args |-> [i \in 1..Len(sums) |-> sums[i].val],
          text |-> Chars(file_name.text) \o pieces]

\* <SpanT<F> as Display>::fmt
fmt(self, overflow_checks) ==
    LET sr == usize_add(self.start.row, 1)
        sc == usize_add(self.start.col, 1)
        er == usize_add(self.end.row, 1)
        ec == usize_add(self.end.col, 1)
    IN  IF self.start.row = self.end.row
        THEN IF self.start.col = self.end.col
             THEN write(self.file_name, <<sr, sc>>,
                        ":" \o Dec(sr.val) \o "," \o Dec(sc.val), overflow_checks)
             ELSE write(self.file_name, <<sr, sc, ec>>,
                        ":" \o Dec(sr.val) \o "," \o Dec(sc.val) \o "-" \o Dec(ec.val),
                        overflow_checks)
        ELSE write(self.file_name, <<sr, sc, er, ec>>,
                   ":" \o Dec(sr.val) \o "," \o Dec(sc.val) \o "-" \o Dec(er.val)
                       \o "," \o Dec(ec.val),
                   overflow_checks)

----------------------------------------------------------------------------
(* Operands *)

\* Every Loc over the byte positions and the whole of usize for row and col.
Locs == {Loc_new(p, r, c) : p \in Positions, r \in Usize, c \in Usize}

\* The locations of the operands of the binary span operations.
PairLocs == {Loc_new(p, r, c) : p \in Positions, r \in Lines, c \in Lines}

\* Span<'f> values over a set of locations, inverted ones included.
Spans(locs) == {SpanT_new(Str(t), st, en) : t \in FileTexts, st \in locs, en \in locs}

\* No call made yet.
NoRet == [op |-> "none"]

\* The operands a specification does not use.
Idle == SpanT_zero(Str(<<"a", ".", "j", "s">>))

----------------------------------------------------------------------------
(* Loc::min and Loc::max on two locations *)

InitLoc ==
    /\ a \in Locs
    /\ b \in Locs
    /\ s1 = Idle /\ s2 = Idle /\ s3 = Idle
    /\ ret = NoRet

\* a.min(b)
LocMin ==
    /\ ret' = [op |-> "min", val |-> Loc_min(a, b)]
    /\ UNCHANGED <<a, b, s1, s2, s3>>

\* a.max(b)
LocMax ==
    /\ ret' = [op |-> "max", val |-> Loc_max(a, b)]
    /\ UNCHANGED <<a, b, s1, s2, s3>>

NextLoc == LocMin \/ LocMax

SpecLoc == InitLoc /\ [][NextLoc]_vars

----------------------------------------------------------------------------
(* extend_to_cover on two spans *)

Init ==
    /\ s1 \in Spans(PairLocs)
    /\ s2 \in Spans(PairLocs)
    /\ a = Loc_zero /\ b = Loc_zero /\ s3 = Idle
    /\ ret = NoRet

\* s1.extend_to_cover(s2)
ExtendToCover ==
    /\ ret' = [op |-> "extend_to_cover", val |-> extend_to_cover(s1, s2)]
    /\ UNCHANGED <<a, b, s1, s2, s3>>

\* s1.extend_to_cover(s1)
ExtendSelf ==
    /\ ret' = [op |-> "extend_self", val |-> extend_to_cover(s1, s1)]
    /\ UNCHANGED <<a, b, s1, s2, s3>>

Next == ExtendToCover \/ ExtendSelf

Spec == Init /\ [][Next]_vars

----------------------------------------------------------------------------
(* Properties of Loc::min, Loc::max and extend_to_cover *)

\* The smaller and the larger of two numbers.
Smaller(x, y) == IF x < y THEN x ELSE y
Larger(x, y) == IF x > y THEN x ELSE y

\* A span whose start is not after its end.
WellFormed(span) == span.start.pos <= span.end.pos

\* C3: a.min(b) is the one of a, b with the smaller pos and a.max(b) the one
\* with the larger pos, returned whole with its own row and col; on equal pos
\* both return a; so min's pos is at most max's and the two positions
\* returned are the two positions given.
C3_MinMaxSelectByPos ==
    /\ ret.op = "min" =>
          /\ ret.val \in {a, b}
          /\ ret.val.pos = Smaller(a.pos, b.pos)
          /\ a.pos = b.pos => ret.val = a
          /\ a.pos < b.pos => ret.val = a
          /\ b.pos < a.pos => ret.val = b
          /\ ret.val.pos <= Loc_max(a, b).pos
    /\ ret.op = "max" =>
          /\ ret.val \in {a, b}
          /\ ret.val.pos = Larger(a.pos, b.pos)
          /\ a.pos = b.pos => ret.val = a
          /\ a.pos > b.pos => ret.val = a
          /\ b.pos > a.pos => ret.val = b
          /\ {Loc_min(a, b).pos, ret.val.pos} = {a.pos, b.pos}

\* min has been called on two different locations of equal pos.
C3_Witness ==
    /\ ret.op = "min"
    /\ a.pos = b.pos
    /\ a.row /= b.row
    /\ a.col /= b.col

\* C1: for spans of the same file, s1.extend_to_cover(s2) starts at the
\* smaller start.pos and ends at the larger end.pos, which is the least
\* range that reaches both starts and both ends.
C1_ExtendIsMinMax ==
    (ret.op = "extend_to_cover" /\ s1.file_name = s2.file_name) =>
        /\ ret.val.start.pos = Smaller(s1.start.pos, s2.start.pos)
        /\ ret.val.end.pos = Larger(s1.end.pos, s2.end.pos)
        /\ \A lo \in Positions, hi \in Positions :
              (/\ lo <= s1.start.pos /\ lo <= s2.start.pos
               /\ hi >= s1.end.pos /\ hi >= s2.end.pos)
              => (lo <= ret.val.start.pos /\ ret.val.end.pos <= hi)

\* The union takes its start from s2 and its end from s1.
C1_Witness ==
    /\ ret.op = "extend_to_cover"
    /\ s1.file_name = s2.file_name
    /\ s2.start.pos < s1.start.pos
    /\ s2.end.pos < s1.end.pos
    /\ ret.val.start = s2.start
    /\ ret.val.end = s1.end

\* C5: s.extend_to_cover(s) is s, field for field, inverted spans included.
C5_ExtendSelfIsIdentity ==
    ret.op = "extend_self" => ret.val = s1

\* An inverted span has been united with itself.
C5_Witness ==
    /\ ret.op = "extend_self"
    /\ s1.start.pos > s1.end.pos
    /\ s1.start.row /= s1.end.row

\* C6 as stated: whatever the two spans, the union has start.pos <= end.pos.
C6_UnionNeverInverted ==
    ret.op = "extend_to_cover" => WellFormed(ret.val)

\* C6 amended: when at least one of the two spans has start.pos <= end.pos,
\* so has the union.
C6_UnionOfWellFormedOperand ==
    (ret.op = "extend_to_cover" /\ (WellFormed(s1) \/ WellFormed(s2)))
        => WellFormed(ret.val)

\* An inverted span has been united with a well-formed one.
C6_Witness ==
    /\ ret.op = "extend_to_cover"
    /\ ~WellFormed(s1)
    /\ WellFormed(s2)
    /\ WellFormed(ret.val)

----------------------------------------------------------------------------
(* Folding three child spans with extend_to_cover *)

\* The spans of child i: child i lies on line i.
ChildSpans(i) ==
    {SpanT_new(Str(t), Loc_new(p, i, 0), Loc_new(q, i, 0)) :
        t \in FileTexts, p \in Positions, q \in Positions}

InitFold ==
    /\ s1 \in ChildSpans(0)
    /\ s2 \in ChildSpans(1)
    /\ s3 \in ChildSpans(2)
    /\ a = Loc_zero /\ b = Loc_zero
    /\ ret = NoRet

\* The child of an index.
Child(i) == CASE i = 1 -> s1 [] i = 2 -> s2 [] i = 3 -> s3

\* The orders in which one, two or three different children are taken.
Orders ==
    {o \in UNION {[1..n -> 1..3] : n \in 1..3} :
        \A i \in DOMAIN o, j \in DOMAIN o : i /= j => o[i] /= o[j]}

\* ((x.extend_to_cover(y)).extend_to_cover(z)) ...
RECURSIVE fold_left(_)
fold_left(spans) ==
    IF Len(spans) = 1
    THEN spans[1]
    ELSE extend_to_cover(fold_left(SubSeq(spans, 1, Len(spans) - 1)), spans[Len(spans)])

\* x.extend_to_cover(y.extend_to_cover(z ...))
RECURSIVE fold_right(_)
fold_right(spans) ==
    IF Len(spans) = 1
    THEN spans[1]
    ELSE extend_to_cover(spans[1], fold_right(Tail(spans)))

\* The children of an order folded from the left.  A run folds once: the
\* operands never change, a second fold would add no state.
FoldLeft ==
    \E o \in Orders :
        /\ ret = NoRet
        /\ ret' = [op |-> "fold", order |-> o, grouping |-> "left",
                   val |-> fold_left([k \in DOMAIN o |-> Child(o[k])])]
        /\ UNCHANGED <<a, b, s1, s2, s3>>

\* The children of an order folded from the right.
FoldRight ==
    \E o \in Orders :
        /\ ret = NoRet
        /\ ret' = [op |-> "fold", order |-> o, grouping |-> "right",
                   val |-> fold_right([k \in DOMAIN o |-> Child(o[k])])]
        /\ UNCHANGED <<a, b, s1, s2, s3>>

NextFold == FoldLeft \/ FoldRight

SpecFold == InitFold /\ [][NextFold]_vars

----------------------------------------------------------------------------
(* with_file_name, with_rc and with_owned on one span *)

\* File name values of the three representations.
FileNamesOf(t) == {Str(t), to_owned(Str(t)), Rc_new(to_owned(Str(t)))}
FileNames == UNION {FileNamesOf(t) : t \in FileTexts}

InitConv ==
    /\ s1 \in Spans(PairLocs)
    /\ s2 = Idle /\ s3 = Idle
    /\ a = Loc_zero /\ b = Loc_zero
    /\ ret = NoRet

\* s1.with_file_name(f)
WithFileName ==
    \E f \in FileNames :
        /\ ret' = [op |-> "with_file_name", self |-> s1, arg |-> f,
                   val |-> with_file_name(s1, f)]
        /\ UNCHANGED <<a, b, s1, s2, s3>>

\* s1.with_rc()
WithRc ==
    /\ ret' = [op |-> "with_rc", self |-> s1, arg |-> s1.file_name, val |-> with_rc(s1)]
    /\ UNCHANGED <<a, b, s1, s2, s3>>

\* s1.with_owned()
WithOwned ==
    /\ ret' = [op |-> "with_owned", self |-> s1, arg |-> s1.file_name, val |-> with_owned(s1)]
    /\ UNCHANGED <<a, b, s1, s2, s3>>

NextConv == WithFileName \/ WithRc \/ WithOwned

SpecConv == InitConv /\ [][NextConv]_vars

----------------------------------------------------------------------------
(* Display of one span, row and col over the whole of usize *)

InitDisplay ==
    /\ s1 \in Spans(Locs)
    /\ s2 = Idle /\ s3 = Idle
    /\ a = Loc_zero /\ b = Loc_zero
    /\ ret = NoRet

\* format!("{}", s1) in a build with overflow checks (debug).
DisplayChecked ==
    /\ ret' = [op |-> "fmt", overflow_checks |-> TRUE, val |-> fmt(s1, TRUE)]
    /\ UNCHANGED <<a, b, s1, s2, s3>>

\* format!("{}", s1) in a build without overflow checks (release).
DisplayWrapping ==
    /\ ret' = [op |-> "fmt", overflow_checks |-> FALSE, val |-> fmt(s1, FALSE)]
    /\ UNCHANGED <<a, b, s1, s2, s3>>

NextDisplay == DisplayChecked \/ DisplayWrapping

SpecDisplay == InitDisplay /\ [][NextDisplay]_vars

----------------------------------------------------------------------------
(* Spans built by zero, empty and new with start.pos <= end.pos, and every  *)
(* span made from them by extend_to_cover, with_file_name, with_rc and      *)
(* with_owned.  Two spans are held, s1 and s2; an operation puts its result *)
(* in the one it is called on.                                              *)

\* The locations given to empty and new.
BuildLocs == {Loc_new(p, r, 0) : p \in Positions, r \in Lines}

\* The file of the spans built.
BuildText == <<"a", ".", "j", "s">>

InitBuild ==
    /\ s1 = SpanT_zero(Str(BuildText))
    /\ s2 = SpanT_zero(Str(BuildText))
    /\ s3 = Idle
    /\ a = Loc_zero /\ b = Loc_zero
    /\ ret = NoRet

\* The span held in a place, and the other one.
Held(r) == IF r = 1 THEN s1 ELSE s2
Other(r) == IF r = 1 THEN s2 ELSE s1

\* Span r becomes v.
Put(r, v) ==
    /\ s1' = IF r = 1 THEN v ELSE s1
    /\ s2' = IF r = 2 THEN v ELSE s2
    /\ UNCHANGED <<a, b, s3>>

\* SpanT::zero(file_name)
BuildZero ==
    \E r \in {1, 2} :
        /\ Put(r, SpanT_zero(Str(BuildText)))
        /\ ret' = [op |-> "zero", at |-> r, loc |-> Loc_zero]

\* SpanT::empty(file_name, loc)
BuildEmpty ==
    \E r \in {1, 2}, loc \in BuildLocs :
        /\ Put(r, SpanT_empty(Str(BuildText), loc))
        /\ ret' = [op |-> "empty", at |-> r, loc |-> loc]

\* SpanT::new(file_name, start, end), called with start.pos <= end.pos
BuildNew ==
    \E r \in {1, 2}, start \in BuildLocs, end \in BuildLocs :
        /\ start.pos <= end.pos
        /\ Put(r, SpanT_new(Str(BuildText), start, end))
        /\ ret' = [op |-> "new", at |-> r, loc |-> Loc_zero]

\* x = x.extend_to_cover(y); both are SpanT<F> of one F.
BuildExtend ==
    \E r \in {1, 2} :
        /\ Held(r).file_name.repr = Other(r).file_name.repr
        /\ Put(r, extend_to_cover(Held(r), Other(r)))
        /\ ret' = [op |-> "extend_to_cover", at |-> r, loc |-> Loc_zero]

\* x = x.with_file_name(f)
BuildWithFileName ==
    \E r \in {1, 2}, f \in FileNamesOf(BuildText) :
        /\ Put(r, with_file_name(Held(r), f))
        /\ ret' = [op |-> "with_file_name", at |-> r, loc |-> Loc_zero]

\* x = x.with_rc(), of a Span<'f>
BuildWithRc ==
    \E r \in {1, 2} :
        /\ Held(r).file_name.repr = "&str"
        /\ Put(r, with_rc(Held(r)))
        /\ ret' = [op |-> "with_rc", at |-> r, loc |-> Loc_zero]

\* x = x.with_owned(), of a Span<'f>
BuildWithOwned ==
    \E r \in {1, 2} :
        /\ Held(r).file_name.repr = "&str"
        /\ Put(r, with_owned(Held(r)))
        /\ ret' = [op |-> "with_owned", at |-> r, loc |-> Loc_zero]

NextBuild ==
    \/ BuildZero
    \/ BuildEmpty
    \/ BuildNew
    \/ BuildExtend
    \/ BuildWithFileName
    \/ BuildWithRc
    \/ BuildWithOwned

SpecBuild == InitBuild /\ [][NextBuild]_vars

----------------------------------------------------------------------------
(* Properties of folds, conversions, Display and built spans *)

\* The children of an order, in the order of their indices.
Ascending(o) ==
    LET taken == {o[k] : k \in DOMAIN o}
        upTo(i) == Cardinality({j \in taken : j <= i})
    IN  [k \in 1..Cardinality(taken) |-> Child(CHOOSE i \in taken : upTo(i) = k)]

\* C2: the range of a fold of spans with extend_to_cover depends neither on
\* the order nor on the grouping: any order, folded from the left or from
\* the right, gives the start.pos and end.pos of the left fold of the same
\* spans in the order of their indices.
C2_FoldRangeOrderFree ==
    ret.op = "fold" =>
        /\ ret.val.start.pos = fold_left(Ascending(ret.order)).start.pos
        /\ ret.val.end.pos = fold_left(Ascending(ret.order)).end.pos

\* Three children taken out of order and folded from the right, to a span
\* other than the left fold in order, on three different starts.
C2_Witness ==
    /\ ret.op = "fold"
    /\ ret.order = <<3, 1, 2>>
    /\ ret.grouping = "right"
    /\ ret.val /= fold_left(<<s1, s2, s3>>)
    /\ Cardinality({s1.start.pos, s2.start.pos, s3.start.pos}) = 3
    /\ s1.end.pos = s2.end.pos

\* C7: extend_to_cover keeps the file name of its left operand, whatever the
\* file name of the right one, so a fold ends with the file name of the
\* first span taken.
C7_FoldKeepsFirstFileName ==
    ret.op = "fold" => ret.val.file_name = Child(ret.order[1]).file_name

\* A left fold of three spans, the first of a file the others are not of.
C7_Witness ==
    /\ ret.op = "fold"
    /\ ret.grouping = "left"
    /\ Len(ret.order) = 3
    /\ Child(ret.order[1]).file_name /= Child(ret.order[2]).file_name
    /\ Child(ret.order[2]).file_name = Child(ret.order[3]).file_name
    /\ ret.val.end = Child(ret.order[3]).end
    /\ ret.val.end.pos > Child(ret.order[1]).end.pos

\* C8: with_owned and with_rc return a span with the text of the file name
\* of s and the start and end of s; with_file_name(f) returns a span with
\* file name f and the start and end of s; s is as it was.
C8_ConversionsKeepTextAndLocs ==
    /\ ret.op \in {"with_owned", "with_rc", "with_file_name"} =>
          /\ ret.val.start = s1.start
          /\ ret.val.end = s1.end
          /\ s1 = ret.self
    /\ ret.op = "with_owned" =>
          /\ ret.val.file_name.repr = "String"
          /\ ret.val.file_name.text = s1.file_name.text
    /\ ret.op = "with_rc" =>
          /\ ret.val.file_name.repr = "Rc<String>"
          /\ ret.val.file_name.text = s1.file_name.text
    /\ ret.op = "with_file_name" => ret.val.file_name = ret.arg

\* with_rc has been called on a span of b.js whose ends differ in pos, row
\* and col.
C8_Witness ==
    /\ ret.op = "with_rc"
    /\ s1.file_name.text = <<"b", ".", "j", "s">>
    /\ s1.start.pos /= s1.end.pos
    /\ s1.start.row /= s1.end.row
    /\ s1.start.col /= s1.end.col
    /\ Chars(ret.val.file_name.text) = "b.js"

\* The three forms of the rendering, with row + 1 and col + 1 as numbers.
Rendering(span) ==
    LET f == Chars(span.file_name.text)
        n(x) == ToString(x + 1)
    IN  CASE span.start.row = span.end.row /\ span.start.col = span.end.col ->
               f \o ":" \o n(span.start.row) \o "," \o n(span.start.col)
          [] span.start.row = span.end.row /\ span.start.col /= span.end.col ->
               f \o ":" \o n(span.start.row) \o "," \o n(span.start.col)
                 \o "-" \o n(span.end.col)
          [] span.start.row /= span.end.row ->
               f \o ":" \o n(span.start.row) \o "," \o n(span.start.col)
                 \o "-" \o n(span.end.row) \o "," \o n(span.end.col)

\* A span with the byte positions of its ends set to 0.
AtPosZero(span) ==
    [span EXCEPT !.start.pos = 0, !.end.pos = 0]

\* C4: displaying a span writes the one of the three forms its rows and
\* cols select, with each stored row and col plus 1; pos plays no part; and
\* Span::zero("a.js") is written "a.js:1,1".
C4_DisplayThreeForms ==
    ret.op = "fmt" =>
        /\ ~ret.val.panicked
        /\ ret.val.text = Rendering(s1)
        /\ ret.val = fmt(AtPosZero(s1), ret.overflow_checks)
        /\ s1 = SpanT_zero(Str(<<"a", ".", "j", "s">>)) => ret.val.text = "a.js:1,1"

\* C9: no operation fails: Display neither panics nor writes a wrapped
\* number, for every usize row and col, usize::MAX included.
C9_DisplayTotalNoWrap ==
    ret.op = "fmt" =>
        /\ ~ret.val.panicked
        /\ \A i \in DOMAIN ret.val.args : ret.val.args[i] >= 1
        /\ ret.val.args[1] = s1.start.row + 1
        /\ ret.val.args[2] = s1.start.col + 1

\* The span held in place r.
At(r) == IF r = 1 THEN s1 ELSE s2

\* C10: spans built by zero, empty and new with start.pos <= end.pos, and
\* every span made from them by extend_to_cover, with_file_name, with_rc and
\* with_owned, have start.pos <= end.pos; empty(f, loc) starts and ends at
\* loc and zero(f) at pos 0, row 0, col 0.
C10_BuiltSpansWellFormed ==
    /\ WellFormed(s1)
    /\ WellFormed(s2)
    /\ ret.op = "empty" => (At(ret.at).start = ret.loc /\ At(ret.at).end = ret.loc)
    /\ ret.op = "zero" =>
          /\ At(ret.at).start = [pos |-> 0, row |-> 0, col |-> 0]
          /\ At(ret.at).end = [pos |-> 0, row |-> 0, col |-> 0]

\* A span with a shared file name has been extended to more than either of
\* the two spans it was made of.
C10_Witness ==
    /\ ret.op = "extend_to_cover"
    /\ At(ret.at).file_name.repr = "Rc<String>"
    /\ At(ret.at).start.pos < s2.start.pos
    /\ At(ret.at).end.pos > s2.start.pos
    /\ At(ret.at).start.row /= At(ret.at).end.row
    /\ ret.at = 1
    /\ s2.start.pos < s2.end.pos
    /\ At(ret.at).end = s2.end

====
